---- MODULE Spec2Model ----
(***************************************************************************)
(* Clarity-gated pitch classification (gender_predictor.py) and the       *)
(* /predict_gender request handler (main.py).                              *)
(*                                                                         *)
(* Numbers.  Python floats are modelled as exact rationals                 *)
(* [tag, num, den] (den > 0) with the two special values None and -inf.   *)
(* Comparisons cross-multiply, so 7.0, 0.0005 and 165 are the source's     *)
(* values and not rescaled integers.  Strings are strings: the clarity      *)
(* message is built by concatenation and joining as the code builds it.    *)
(*                                                                         *)
(* Collaborators.  librosa.load, librosa.pyin and librosa.feature.rms are  *)
(* outside the repository; each call's outcome (a raise, or the value      *)
(* returned) is an input drawn from a bounded set.  The numpy reductions   *)
(* of a non-empty frame-energy array (percentile, mean, log10) are inputs  *)
(* too: the SNR and mean energy of that branch are drawn from grids        *)
(* around the two thresholds.                                              *)
(***************************************************************************)
EXTENDS Integers, Sequences, FiniteSets, TLC

VARIABLES
    pc,                 \* position of the pipeline invocation
    y,                  \* loaded signal: [size, sr]
    avg_pitch,
    frame_length,
    hop_length,
    noise_frames_count,
    snr_db,
    total_energy,
    reasons,
    clarity_message,
    features,           \* value returned by extract_features_with_clarity
    result,             \* value returned by predict_gender_with_clarity_check
    raised,             \* an exception left extract_features_with_clarity
    lib,                \* what each collaborator call did: [load, pyin, rms]
    ran,                \* stages executed so far, in order
    req,                \* main.py: the state of each /predict_gender request
    file                \* main.py: the file named "temp_audio.wav"

pvars == <<pc, y, avg_pitch, frame_length, hop_length, noise_frames_count,
           snr_db, total_energy, reasons, clarity_message, features, result,
           raised, lib, ran>>
svars == <<req, file>>
vars == <<pvars, svars>>

(***************************************************************************)
(* Bounds of the model.                                                    *)
(***************************************************************************)
MaxSamples == 1         \* y.size ranges over 0..MaxSamples
SrStep == 25            \* sample rates are multiples of SrStep ...
MaxSrSteps == 5         \* ... up to MaxSrSteps * SrStep, plus sample_rate
MaxFrames == 2          \* frames returned by pyin
PitchSpread == 1        \* f0 values within PitchSpread Hz of the threshold
SnrSpread == 1          \* SNR grid: threshold +- SnrSpread * 0.01 dB
EnergySpread == 1       \* energy grid: 0 .. threshold + EnergySpread * 1e-4
NReq == 2               \* concurrent /predict_gender requests

(***************************************************************************)
(* Floats as rationals.                                                    *)
(***************************************************************************)
Rat(n, d) == [tag |-> "num", num |-> n, den |-> d]
None == [tag |-> "None", num |-> 0, den |-> 1]
NegInf == [tag |-> "-inf", num |-> 0, den |-> 1]
Zero == Rat(0, 1)

IsNone(a) == a.tag = "None"
IsZero(a) == a.tag = "num" /\ a.num = 0
Lt(a, b) ==
    IF a.tag = "-inf" THEN b.tag # "-inf"
    ELSE IF b.tag = "-inf" THEN FALSE
    ELSE a.num * b.den < b.num * a.den
Gt(a, b) == Lt(b, a)

(***************************************************************************)
(* AudioAnalyzerConfig.                                                    *)
(***************************************************************************)
frame_length_ms == 20
hop_length_ms == 10
noise_estimation_duration_s == Rat(1, 2)
min_snr_threshold_db == Rat(7, 1)
min_total_energy_threshold == Rat(5, 10000)
gender_female_pitch_threshold == Rat(165, 1)
sample_rate == 22050

(***************************************************************************)
(* Formatting: f"{x:.2f}" and f"{x:.4f}", rounding to the nearest (a tie,   *)
(* which no value of the grids produces, would round up).                  *)
(***************************************************************************)
RECURSIVE Pow10(_)
Pow10(k) == IF k = 0 THEN 1 ELSE 10 * Pow10(k - 1)

RECURSIVE Digits(_, _)
Digits(n, k) == IF k = 0 THEN "" ELSE Digits(n \div 10, k - 1) \o ToString(n % 10)

Abs(n) == IF n < 0 THEN -n ELSE n

Format(x, digits) ==
    IF x.tag = "-inf" THEN "-inf"
    ELSE LET scale == Pow10(digits)
             q == (2 * Abs(x.num) * scale + x.den) \div (2 * x.den)
         IN  (IF x.num < 0 THEN "-" ELSE "")
                 \o ToString(q \div scale) \o "." \o Digits(q % scale, digits)

RECURSIVE Join(_, _)
Join(sep, parts) ==
    IF parts = <<>> THEN ""
    ELSE IF Len(parts) = 1 THEN parts[1]
    ELSE parts[1] \o sep \o Join(sep, Tail(parts))

(***************************************************************************)
(* Outcomes of the collaborators.                                          *)
(***************************************************************************)
SampleRates == {k * SrStep : k \in 1..MaxSrSteps} \cup {sample_rate}

LoadErrors == {"Format not recognised."}

LoadOutcomes ==
    {[kind |-> "FileNotFoundError", e |-> "", size |-> 0, sr |-> 0]}
    \cup {[kind |-> "Exception", e |-> m, size |-> 0, sr |-> 0] : m \in LoadErrors}
    \cup {[kind |-> "ok", e |-> "", size |-> n, sr |-> s] :
            n \in 0..MaxSamples, s \in SampleRates}

\* one pyin frame: f0 (NaN or a frequency in Hz) and its voiced flag
F0Values ==
    (gender_female_pitch_threshold.num - PitchSpread)
        ..(gender_female_pitch_threshold.num + PitchSpread)

PyinFrames ==
    {[nan |-> TRUE, f0 |-> 0, voiced |-> v] : v \in BOOLEAN}
    \cup {[nan |-> FALSE, f0 |-> f, voiced |-> v] : f \in F0Values, v \in BOOLEAN}

FrameSeqs == UNION {[1..n -> PyinFrames] : n \in 0..MaxFrames}

PyinOutcomes ==
    {[kind |-> "raise", frames |-> <<>>]}
    \cup {[kind |-> "frames", frames |-> f] : f \in FrameSeqs}

SnrValues ==
    {Rat(100 * min_snr_threshold_db.num + k, 100) : k \in (-SnrSpread)..SnrSpread}

EnergyValues ==
    {Rat(e, min_total_energy_threshold.den) :
        e \in 0..(min_total_energy_threshold.num + EnergySpread)}

\* rms: a raise, an empty array, or a non-empty array with its reductions
RmsOutcomes ==
    {[kind |-> k, snr |-> NegInf, energy |-> Zero] : k \in {"raise", "empty"}}
    \cup {[kind |-> "frames", snr |-> s, energy |-> e] :
            s \in SnrValues, e \in EnergyValues}

(***************************************************************************)
(* extract_features_with_clarity, stage by stage.                          *)
(***************************************************************************)
\* the load without the y.size == 0 check of line 36
LoadFailed_NoEmptyCheck(o) == o.kind # "ok"

LoadFailed(o) == o.kind # "ok" \/ o.size = 0

LoadMessage(o) ==
    IF o.kind = "FileNotFoundError" THEN "Error: Audio file not found."
    ELSE IF o.kind = "Exception" THEN "Error loading audio file: " \o o.e
    ELSE "Error: Audio file is empty or too short."

ErrorFeatures(message) ==
    [avg_pitch |-> None, clarity_message |-> message,
     snr_db |-> None, total_energy |-> None]

RECURSIVE SumF0(_)
SumF0(frames) ==
    IF frames = <<>> THEN 0 ELSE Head(frames).f0 + SumF0(Tail(frames))

IsValidPitch(fr) == ~fr.nan /\ fr.voiced

PitchStage(p) ==
    IF p.kind = "raise" THEN [avg_pitch |-> Zero, raises |-> FALSE]
    ELSE LET valid_pitch == SelectSeq(p.frames, IsValidPitch)
         IN  IF Len(valid_pitch) = 0
             THEN [avg_pitch |-> Zero, raises |-> FALSE]
             ELSE [avg_pitch |-> Rat(SumF0(valid_pitch), Len(valid_pitch)),
                   raises |-> FALSE]

\* the fallback taken only when both lengths are zero
FrameLengths_And(sr) ==
    LET f == (frame_length_ms * sr) \div 1000
        h == (hop_length_ms * sr) \div 1000
    IN  IF f = 0 /\ h = 0
        THEN [frame_length |-> 2048, hop_length |-> 512]
        ELSE [frame_length |-> f, hop_length |-> h]

FrameLengths(sr) ==
    LET f == (frame_length_ms * sr) \div 1000
        h == (hop_length_ms * sr) \div 1000
    IN  IF f = 0 \/ h = 0
        THEN [frame_length |-> 2048, hop_length |-> 512]
        ELSE [frame_length |-> f, hop_length |-> h]

\* the energy stage without the except clause of lines 111-114
EnergyStage_NoCatch(r, sr, hop) ==
    IF r.kind = "raise" \/ hop = 0
    THEN [snr_db |-> None, total_energy |-> None, noise_frames_count |-> 0,
          raises |-> TRUE]
    ELSE IF r.kind = "empty"
    THEN [snr_db |-> NegInf, total_energy |-> Zero, noise_frames_count |-> 0,
          raises |-> FALSE]
    ELSE [snr_db |-> r.snr, total_energy |-> r.energy,
          noise_frames_count |->
              (noise_estimation_duration_s.num * sr)
                  \div (noise_estimation_duration_s.den * hop),
          raises |-> FALSE]

\* a zero hop would raise inside the try (rms, or the division of line 93)
EnergyStage(r, sr, hop) ==
    IF r.kind = "raise" \/ hop = 0
    THEN [snr_db |-> NegInf, total_energy |-> Zero, noise_frames_count |-> 0,
          raises |-> FALSE]
    ELSE IF r.kind = "empty"
    THEN [snr_db |-> NegInf, total_energy |-> Zero, noise_frames_count |-> 0,
          raises |-> FALSE]
    ELSE [snr_db |-> r.snr, total_energy |-> r.energy,
          noise_frames_count |->
              (noise_estimation_duration_s.num * sr)
                  \div (noise_estimation_duration_s.den * hop),
          raises |-> FALSE]

NoiseReason(snr) == "High background noise (SNR: " \o Format(snr, 2) \o " dB)"
VolumeReason(energy) ==
    "Too low volume or silence (Avg RMS: " \o Format(energy, 4) \o ")"
PitchReason == "No clear speech pitch detected"

ClarityMessage(r) ==
    [reasons |-> r,
     clarity_message |->
         IF r # <<>> THEN "Voice not clear: " \o Join(", ", r) ELSE "voice clear"]

\* the volume test as an elif of the noise test
ClarityStage_ShortCircuit(pitch, snr, energy) ==
    LET r1 == IF Lt(snr, min_snr_threshold_db) THEN <<NoiseReason(snr)>> ELSE <<>>
        r2 == IF r1 = <<>> /\ Lt(energy, min_total_energy_threshold)
              THEN Append(r1, VolumeReason(energy)) ELSE r1
        r3 == IF IsZero(pitch) /\ r2 = <<>> THEN Append(r2, PitchReason) ELSE r2
    IN  ClarityMessage(r3)

\* the pitch rule without its "and not reasons"
ClarityStage_PitchAlways(pitch, snr, energy) ==
    LET r1 == IF Lt(snr, min_snr_threshold_db) THEN <<NoiseReason(snr)>> ELSE <<>>
        r2 == IF Lt(energy, min_total_energy_threshold)
              THEN Append(r1, VolumeReason(energy)) ELSE r1
        r3 == IF IsZero(pitch) THEN Append(r2, PitchReason) ELSE r2
    IN  ClarityMessage(r3)

\* the clarity check without the pitch rule of lines 128-129
ClarityStage_NoPitchRule(pitch, snr, energy) ==
    LET r1 == IF Lt(snr, min_snr_threshold_db) THEN <<NoiseReason(snr)>> ELSE <<>>
        r2 == IF Lt(energy, min_total_energy_threshold)
              THEN Append(r1, VolumeReason(energy)) ELSE r1
    IN  ClarityMessage(r2)

ClarityStage(pitch, snr, energy) ==
    LET r1 == IF Lt(snr, min_snr_threshold_db) THEN <<NoiseReason(snr)>> ELSE <<>>
        r2 == IF Lt(energy, min_total_energy_threshold)
              THEN Append(r1, VolumeReason(energy)) ELSE r1
        r3 == IF IsZero(pitch) /\ r2 = <<>> THEN Append(r2, PitchReason) ELSE r2
    IN  ClarityMessage(r3)

(***************************************************************************)
(* predict_gender_with_clarity_check, after the call of line 149.          *)
(***************************************************************************)
\* the gender rule with >= for >
ClassifyFeatures_Ge(f) ==
    IF IsNone(f.avg_pitch)
    THEN [gender_prediction |-> f.clarity_message, avg_pitch |-> None]
    ELSE IF f.clarity_message # "voice clear"
    THEN [gender_prediction |-> f.clarity_message, avg_pitch |-> None]
    ELSE IF IsZero(f.avg_pitch)
    THEN [gender_prediction |-> "Cannot determine gender: No clear pitch detected",
          avg_pitch |-> None]
    ELSE IF ~Lt(f.avg_pitch, gender_female_pitch_threshold)
    THEN [gender_prediction |-> "Female", avg_pitch |-> f.avg_pitch]
    ELSE [gender_prediction |-> "Male", avg_pitch |-> f.avg_pitch]

\* the orchestrator without the clarity gate of lines 155-157
ClassifyFeatures_NoGate(f) ==
    IF IsNone(f.avg_pitch)
    THEN [gender_prediction |-> f.clarity_message, avg_pitch |-> None]
    ELSE IF IsZero(f.avg_pitch)
    THEN [gender_prediction |-> "Cannot determine gender: No clear pitch detected",
          avg_pitch |-> None]
    ELSE IF Gt(f.avg_pitch, gender_female_pitch_threshold)
    THEN [gender_prediction |-> "Female", avg_pitch |-> f.avg_pitch]
    ELSE [gender_prediction |-> "Male", avg_pitch |-> f.avg_pitch]

ClassifyFeatures(f) ==
    IF IsNone(f.avg_pitch)
    THEN [gender_prediction |-> f.clarity_message, avg_pitch |-> None]
    ELSE IF f.clarity_message # "voice clear"
    THEN [gender_prediction |-> f.clarity_message, avg_pitch |-> None]
    ELSE IF IsZero(f.avg_pitch)
    THEN [gender_prediction |-> "Cannot determine gender: No clear pitch detected",
          avg_pitch |-> None]
    ELSE IF Gt(f.avg_pitch, gender_female_pitch_threshold)
    THEN [gender_prediction |-> "Female", avg_pitch |-> f.avg_pitch]
    ELSE [gender_prediction |-> "Male", avg_pitch |-> f.avg_pitch]

\* the gender rule (lines 161-167) is evaluated only past both early returns
ReachesGenderRule(f) == ~IsNone(f.avg_pitch) /\ f.clarity_message = "voice clear"

(***************************************************************************)
(* One invocation of predict_gender_with_clarity_check as a state machine. *)
(***************************************************************************)
NoFeatures == ErrorFeatures("")
NoResult == [gender_prediction |-> "", avg_pitch |-> None]

PipelineInit ==
    /\ pc = "load"
    /\ y = [size |-> 0, sr |-> 0]
    /\ avg_pitch = None
    /\ frame_length = 0
    /\ hop_length = 0
    /\ noise_frames_count = 0
    /\ snr_db = None
    /\ total_energy = None
    /\ reasons = <<>>
    /\ clarity_message = ""
    /\ features = NoFeatures
    /\ result = NoResult
    /\ raised = FALSE
    /\ lib = [load |-> "", pyin |-> "", rms |-> ""]
    /\ ran = <<>>

\* lines 34-44: the load and its three early returns
Load ==
    /\ pc = "load"
    /\ \E o \in LoadOutcomes :
        /\ lib' = [lib EXCEPT !.load = o.kind]
        /\ ran' = Append(ran, "load")
        /\ IF LoadFailed(o)
           THEN /\ features' = ErrorFeatures(LoadMessage(o))
                /\ y' = [size |-> o.size, sr |-> o.sr]
                /\ pc' = "return"
           ELSE /\ y' = [size |-> o.size, sr |-> o.sr]
                /\ pc' = "pitch"
                /\ UNCHANGED features
    /\ UNCHANGED <<avg_pitch, frame_length, hop_length, noise_frames_count, snr_db,
                   total_energy, reasons, clarity_message, result, raised, svars>>

\* lines 46-70
Pitch ==
    /\ pc = "pitch"
    /\ \E p \in PyinOutcomes :
        LET s == PitchStage(p)
        IN  /\ lib' = [lib EXCEPT !.pyin = p.kind]
            /\ avg_pitch' = s.avg_pitch
            /\ raised' = s.raises
            /\ pc' = IF s.raises THEN "aborted" ELSE "framing"
    /\ ran' = Append(ran, "pitch")
    /\ UNCHANGED <<y, frame_length, hop_length, noise_frames_count, snr_db,
                   total_energy, reasons, clarity_message, features, result, svars>>

\* lines 75-81
Framing ==
    /\ pc = "framing"
    /\ frame_length' = FrameLengths(y.sr).frame_length
    /\ hop_length' = FrameLengths(y.sr).hop_length
    /\ ran' = Append(ran, "framing")
    /\ pc' = "energy"
    /\ UNCHANGED <<y, avg_pitch, noise_frames_count, snr_db, total_energy, reasons,
                   clarity_message, features, result, raised, lib, svars>>

\* lines 83-114
Energy ==
    /\ pc = "energy"
    /\ \E r \in RmsOutcomes :
        LET s == EnergyStage(r, y.sr, hop_length)
        IN  /\ lib' = [lib EXCEPT !.rms = r.kind]
            /\ snr_db' = s.snr_db
            /\ total_energy' = s.total_energy
            /\ noise_frames_count' = s.noise_frames_count
            /\ raised' = s.raises
            /\ pc' = IF s.raises THEN "aborted" ELSE "clarity"
    /\ ran' = Append(ran, "energy")
    /\ UNCHANGED <<y, avg_pitch, frame_length, hop_length, reasons,
                   clarity_message, features, result, svars>>

\* lines 116-134
Clarity ==
    /\ pc = "clarity"
    /\ LET c == ClarityStage(avg_pitch, snr_db, total_energy)
       IN  /\ reasons' = c.reasons
           /\ clarity_message' = c.clarity_message
           /\ features' = [avg_pitch |-> avg_pitch,
                           clarity_message |-> c.clarity_message,
                           snr_db |-> snr_db, total_energy |-> total_energy]
    /\ ran' = Append(ran, "clarity")
    /\ pc' = "return"
    /\ UNCHANGED <<y, avg_pitch, frame_length, hop_length, noise_frames_count,
                   snr_db, total_energy, result, raised, lib, svars>>

\* lines 149-170
Classify ==
    /\ pc = "return"
    /\ result' = ClassifyFeatures(features)
    /\ ran' = IF ReachesGenderRule(features) THEN Append(ran, "gender") ELSE ran
    /\ pc' = "done"
    /\ UNCHANGED <<y, avg_pitch, frame_length, hop_length, noise_frames_count,
                   snr_db, total_energy, reasons, clarity_message, features,
                   raised, lib, svars>>

PipelineNext == Load \/ Pitch \/ Framing \/ Energy \/ Clarity \/ Classify

(***************************************************************************)
(* The two functions as functions of what the collaborators return for a   *)
(* given file: audio = [load, pyin, rms].                                  *)
(***************************************************************************)
extract_features_with_clarity(audio) ==
    IF LoadFailed(audio.load) THEN ErrorFeatures(LoadMessage(audio.load))
    ELSE LET p == PitchStage(audio.pyin)
             l == FrameLengths(audio.load.sr)
             e == EnergyStage(audio.rms, audio.load.sr, l.hop_length)
             c == ClarityStage(p.avg_pitch, e.snr_db, e.total_energy)
         IN  [avg_pitch |-> p.avg_pitch, clarity_message |-> c.clarity_message,
              snr_db |-> e.snr_db, total_energy |-> e.total_energy]

predict_gender_with_clarity_check(audio) ==
    ClassifyFeatures(extract_features_with_clarity(audio))

\* main.py imports predict_gender from gender_predictor, which does not define
\* it: the request-facing entry point invokes the orchestrator with a fresh
\* configuration and hands back its label or message.
predict_gender(audio) == predict_gender_with_clarity_check(audio).gender_prediction

(***************************************************************************)
(* main.py: /predict_gender.  Requests run on the threads of the Flask     *)
(* server; each step below is one access to the network or to the file     *)
(* system, and steps of different requests interleave.                     *)
(***************************************************************************)
Requests == 1..NReq

Voiced(f) == <<[nan |-> FALSE, f0 |-> f, voiced |-> TRUE]>>
ClearRms ==
    [kind |-> "frames",
     snr |-> Rat(100 * min_snr_threshold_db.num + SnrSpread, 100),
     energy |-> Rat(min_total_energy_threshold.num + EnergySpread,
                    min_total_energy_threshold.den)]
NoisyRms ==
    [kind |-> "frames",
     snr |-> Rat(100 * min_snr_threshold_db.num - SnrSpread, 100),
     energy |-> ClearRms.energy]
Decoded == [kind |-> "ok", e |-> "", size |-> MaxSamples, sr |-> sample_rate]
Undecodable ==
    [kind |-> "Exception", e |-> "Format not recognised.", size |-> 0, sr |-> 0]

FemaleClip ==
    [load |-> Decoded, rms |-> ClearRms,
     pyin |-> [kind |-> "frames",
               frames |-> Voiced(gender_female_pitch_threshold.num + PitchSpread)]]
MaleClip ==
    [load |-> Decoded, rms |-> ClearRms,
     pyin |-> [kind |-> "frames",
               frames |-> Voiced(gender_female_pitch_threshold.num - PitchSpread)]]
NoisyClip ==
    [load |-> Decoded, rms |-> NoisyRms,
     pyin |-> [kind |-> "frames",
               frames |-> Voiced(gender_female_pitch_threshold.num + PitchSpread)]]
\* bytes no decoder accepts: the zero bytes of a file just opened with 'wb'
NoBytes ==
    [load |-> Undecodable, rms |-> [kind |-> "raise", snr |-> NegInf, energy |-> Zero],
     pyin |-> [kind |-> "raise", frames |-> <<>>]]

\* what requests.get finds behind each URL; "http://down/" refuses the connection
Remote ==
    [u \in {"http://host/female.wav", "http://host/male.wav",
            "http://host/noisy.wav", "http://host/page.html"} |->
        CASE u = "http://host/female.wav" -> FemaleClip
          [] u = "http://host/male.wav" -> MaleClip
          [] u = "http://host/noisy.wav" -> NoisyClip
          [] OTHER -> NoBytes]
Urls == DOMAIN Remote \cup {"http://down/"}

\* the JSON object of the request: audio_url absent, empty, or a URL (a body
\* that is no JSON object never reaches line 13 and is left out)
Bodies ==
    {[has_url |-> FALSE, audio_url |-> ""]}
    \cup {[has_url |-> TRUE, audio_url |-> u] : u \in Urls \cup {""}}

NoResponse == [status |-> 0, key |-> "", value |-> ""]
NoFile == [exists |-> FALSE, inode |-> 0, data |-> NoBytes]

\* librosa.load(filename) when the file holds f
Stored(f) ==
    IF f.exists THEN f.data
    ELSE [f.data EXCEPT !.load =
            [kind |-> "FileNotFoundError", e |-> "", size |-> 0, sr |-> 0]]

ServerInit ==
    /\ req = [i \in Requests |->
                [pc |-> "idle", has_url |-> FALSE, audio_url |-> "",
                 content |-> NoBytes, fd |-> 0, read |-> NoBytes, gender |-> "",
                 response |-> NoResponse]]
    /\ file = NoFile

\* lines 10-14
Receive(i) ==
    /\ req[i].pc = "idle"
    /\ \E b \in Bodies :
        req' = [req EXCEPT ![i] =
            IF ~b.has_url \/ b.audio_url = ""
            THEN [@ EXCEPT !.pc = "done", !.has_url = b.has_url,
                           !.audio_url = b.audio_url,
                           !.response = [status |-> 400, key |-> "error",
                                         value |-> "Audio URL missing"]]
            ELSE [@ EXCEPT !.pc = "get", !.has_url = b.has_url,
                           !.audio_url = b.audio_url]]
    /\ UNCHANGED <<file, pvars>>

\* line 18, and lines 27-28 when requests.get raises
Download(i) ==
    /\ req[i].pc = "get"
    /\ req' = [req EXCEPT ![i] =
            IF req[i].audio_url \in DOMAIN Remote
            THEN [@ EXCEPT !.pc = "open", !.content = Remote[req[i].audio_url]]
            ELSE [@ EXCEPT !.pc = "done",
                           !.response = [status |-> 500, key |-> "error",
                                         value |-> "Connection refused"]]]
    /\ UNCHANGED <<file, pvars>>

\* line 19: open(filename, 'wb') creates the file or truncates the one there
Open(i) ==
    /\ req[i].pc = "open"
    /\ file' = [exists |-> TRUE,
                inode |-> IF file.exists THEN file.inode ELSE file.inode + 1,
                data |-> NoBytes]
    /\ req' = [req EXCEPT ![i].pc = "write", ![i].fd = file'.inode]
    /\ UNCHANGED pvars

\* line 20 and the close of the with block: the bytes reach the inode that was
\* opened, which is the named file unless that one was removed meanwhile
Write(i) ==
    /\ req[i].pc = "write"
    /\ file' = IF file.exists /\ file.inode = req[i].fd
               THEN [file EXCEPT !.data = req[i].content]
               ELSE file
    /\ req' = [req EXCEPT ![i].pc = "predict"]
    /\ UNCHANGED pvars

\* line 22: the pipeline's only access to the file is the load of
\* gender_predictor.py line 35; req[i].read keeps what that load was given
Predict(i) ==
    /\ req[i].pc = "predict"
    /\ req' = [req EXCEPT ![i].pc = "remove",
                          ![i].read = Stored(file),
                          ![i].gender = predict_gender(Stored(file))]
    /\ UNCHANGED <<file, pvars>>

\* lines 23-25, and lines 27-28 when os.remove raises
Remove(i) ==
    /\ req[i].pc = "remove"
    /\ IF file.exists
       THEN /\ file' = [file EXCEPT !.exists = FALSE, !.data = NoBytes]
            /\ req' = [req EXCEPT ![i].pc = "done",
                        ![i].response = [status |-> 200, key |-> "gender",
                                         value |-> req[i].gender]]
       ELSE /\ req' = [req EXCEPT ![i].pc = "done",
                        ![i].response =
                            [status |-> 500, key |-> "error",
                             value |-> "[Errno 2] No such file or directory: 'temp_audio.wav'"]]
            /\ UNCHANGED file
    /\ UNCHANGED pvars

ServerNext ==
    \E i \in Requests :
        Receive(i) \/ Download(i) \/ Open(i) \/ Write(i) \/ Predict(i) \/ Remove(i)

Init == PipelineInit /\ ServerInit

\* one invocation of the pipeline
Next == PipelineNext
Spec == Init /\ [][Next]_vars

\* the request handler under NReq concurrent requests
SpecServer == Init /\ [][ServerNext]_vars

(***************************************************************************)
(* Properties.  Thresholds are restated here from AudioAnalyzerConfig and  *)
(* the expected texts are written out, so that each formula is decided by  *)
(* what the stages computed and not by the operators that computed it.     *)
(***************************************************************************)
Elems(q) == {q[k] : k \in 1..Len(q)}

LoadOk == lib.load = "ok" /\ y.size > 0
Extracted == LoadOk /\ pc \in {"return", "done"}
Noisy == snr_db.tag = "-inf" \/ (snr_db.tag = "num" /\ snr_db.num < 7 * snr_db.den)
Quiet == total_energy.tag = "num" /\ total_energy.num * 10000 < 5 * total_energy.den
Pitchless == avg_pitch.tag = "num" /\ avg_pitch.num = 0
Labels == {"Female", "Male"}

\* C1: the noise reason is reported iff SNR < 7.0 (-inf included) and the volume
\* reason iff mean energy < 0.0005, each whatever the other; when both fire the
\* noise reason comes first in the comma-joined message; the verdict is
\* "voice clear" iff there is no reason; low energy always gives an unclear
\* verdict with the volume reason.
C1_ReasonsIndependent ==
    Extracted =>
        /\ (NoiseReason(snr_db) \in Elems(reasons)) <=> Noisy
        /\ (VolumeReason(total_energy) \in Elems(reasons)) <=> Quiet
        /\ (Noisy /\ Quiet) =>
              /\ reasons = <<NoiseReason(snr_db), VolumeReason(total_energy)>>
              /\ clarity_message =
                    "Voice not clear: " \o NoiseReason(snr_db) \o ", "
                        \o VolumeReason(total_energy)
        /\ (clarity_message = "voice clear") <=> (reasons = <<>>)
        /\ Len(reasons) = 1 => clarity_message = "Voice not clear: " \o reasons[1]
        /\ Quiet => clarity_message # "voice clear"
        /\ features.clarity_message = clarity_message

C1_Witness ==
    /\ pc = "done" /\ LoadOk
    /\ snr_db.tag = "num" /\ Noisy /\ Quiet
    /\ Len(reasons) = 2

\* C2: "No clear speech pitch detected" is reported iff the average pitch is 0.0
\* and neither the noise nor the volume reason fired; when reported it is the
\* only reason of the message.
C2_PitchReasonAlone ==
    Extracted =>
        /\ (PitchReason \in Elems(reasons)) <=> (Pitchless /\ ~Noisy /\ ~Quiet)
        /\ (PitchReason \in Elems(reasons)) =>
              /\ reasons = <<"No clear speech pitch detected">>
              /\ clarity_message = "Voice not clear: No clear speech pitch detected"

C2_Witness ==
    /\ pc = "done" /\ LoadOk
    /\ reasons = <<PitchReason>>
    /\ lib.pyin = "frames"

\* C3: after a successful load with a clear verdict and a non-zero average
\* pitch, the label is "Female" iff the average pitch > 165 and "Male"
\* otherwise (so exactly 165 is "Male"), and the pitch returned is the average
\* pitch that was compared.
C3_StrictThreshold ==
    (pc = "done" /\ LoadOk /\ clarity_message = "voice clear" /\ ~Pitchless) =>
        /\ (result.gender_prediction = "Female")
              <=> (avg_pitch.num > 165 * avg_pitch.den)
        /\ (result.gender_prediction = "Male")
              <=> (avg_pitch.num <= 165 * avg_pitch.den)
        /\ result.avg_pitch = avg_pitch
        /\ avg_pitch.tag = "num"

C3_Witness ==
    /\ pc = "done" /\ LoadOk /\ clarity_message = "voice clear"
    /\ avg_pitch.tag = "num" /\ avg_pitch.num = 165 * avg_pitch.den
    /\ result.gender_prediction = "Male"

\* C4: when the clarity verdict is not clear the result is the clarity message
\* with no pitch, no label is produced and the gender rule is not evaluated,
\* whatever the average pitch.
C4_UnclearNeverLabelled ==
    (pc = "done" /\ LoadOk /\ clarity_message # "voice clear") =>
        /\ result.gender_prediction = clarity_message
        /\ result.avg_pitch = None
        /\ result.gender_prediction \notin Labels
        /\ "gender" \notin Elems(ran)

C4_Witness ==
    /\ pc = "done" /\ LoadOk /\ clarity_message # "voice clear"
    /\ avg_pitch.tag = "num" /\ avg_pitch.num > 165 * avg_pitch.den

\* C5 as claimed: otherwise-clear audio (SNR >= 7.0, mean energy >= 0.0005) with
\* average pitch 0.0 ends in "Cannot determine gender: No clear pitch detected".
C5_Original ==
    (pc = "done" /\ LoadOk /\ ~Noisy /\ ~Quiet /\ Pitchless) =>
        result.gender_prediction = "Cannot determine gender: No clear pitch detected"

\* C5 as amended: such audio ends in the unclear clarity message whose only reason
\* is "No clear speech pitch detected", with no pitch; no invocation returns
\* "Cannot determine gender: No clear pitch detected".
C5_PitchlessIsUnclear ==
    /\ (pc = "done" /\ LoadOk /\ ~Noisy /\ ~Quiet /\ Pitchless) =>
          /\ result.gender_prediction
                = "Voice not clear: No clear speech pitch detected"
          /\ result.avg_pitch = None
          /\ "gender" \notin Elems(ran)
    /\ result.gender_prediction
          # "Cannot determine gender: No clear pitch detected"

C5_Witness ==
    /\ pc = "done" /\ LoadOk /\ ~Noisy /\ ~Quiet /\ Pitchless
    /\ snr_db.tag = "num"

\* C8: a failed load (file not found, another exception, zero samples) makes
\* extract_features_with_clarity return (None, message, None, None) at once, with
\* no later stage run, and the orchestrator returns (message, None); every
\* invocation ends in exactly one of load error, message, gender label.
C8_LoadError ==
    LET failed == lib.load # "ok" \/ y.size = 0
        message ==
            IF lib.load = "FileNotFoundError" THEN "Error: Audio file not found."
            ELSE IF lib.load = "Exception"
            THEN "Error loading audio file: Format not recognised."
            ELSE "Error: Audio file is empty or too short."
        isLoadError == failed /\ result = [gender_prediction |-> message,
                                           avg_pitch |-> None]
        isMessage ==
            /\ ~failed /\ result.avg_pitch = None
            /\ reasons # <<>> /\ result.gender_prediction = clarity_message
        isGender ==
            /\ ~failed /\ result.gender_prediction \in Labels
            /\ result.avg_pitch.tag = "num"
    IN  /\ (pc \in {"return", "done"} /\ failed) =>
              /\ ran = <<"load">>
              /\ features = [avg_pitch |-> None, clarity_message |-> message,
                             snr_db |-> None, total_energy |-> None]
              /\ lib.pyin = "" /\ lib.rms = ""
        /\ pc = "done" =>
              /\ isLoadError \/ isMessage \/ isGender
              /\ ~(isLoadError /\ isMessage) /\ ~(isLoadError /\ isGender)
              /\ ~(isMessage /\ isGender)
              /\ failed => isLoadError

C8_Witness ==
    /\ pc = "done" /\ lib.load = "ok" /\ y.size = 0
    /\ result.gender_prediction = "Error: Audio file is empty or too short."

\* C9: after a successful load no stage failure aborts the pipeline: a pitch
\* failure gives average pitch 0.0 and the energy stage still runs; an energy
\* failure or an empty frame-energy array gives SNR -inf and mean energy 0.0, and
\* the result is then the unclear message with the noise and the volume reason.
C9_NeverAborts ==
    /\ ~raised /\ pc # "aborted"
    /\ pc # "done" => ENABLED PipelineNext
    /\ (lib.pyin = "raise") =>
          /\ avg_pitch = [tag |-> "num", num |-> 0, den |-> 1]
          /\ pc = "done" => "energy" \in Elems(ran)
    /\ (lib.rms \in {"raise", "empty"}) =>
          /\ snr_db.tag = "-inf"
          /\ total_energy = [tag |-> "num", num |-> 0, den |-> 1]
          /\ pc = "done" =>
                result =
                    [gender_prediction |->
                        "Voice not clear: High background noise (SNR: -inf dB), Too low volume or silence (Avg RMS: 0.0000)",
                     avg_pitch |-> None]

C9_Witness ==
    pc = "done" /\ lib.pyin = "raise" /\ lib.rms = "raise"

\* C10: frame and hop length are floor(20 ms * sr) and floor(10 ms * sr) in
\* samples; if either is zero both become 2048 and 512, otherwise both are kept;
\* both are positive when the energy stage runs, and the noise-frame count is the
\* floor of 0.5 * sr / hop_length.
C10_FrameLengths ==
    ("framing" \in Elems(ran)) =>
        /\ IF frame_length_ms * y.sr < 1000 \/ hop_length_ms * y.sr < 1000
           THEN frame_length = 2048 /\ hop_length = 512
           ELSE /\ frame_length * 1000 <= frame_length_ms * y.sr
                /\ frame_length_ms * y.sr < (frame_length + 1) * 1000
                /\ hop_length * 1000 <= hop_length_ms * y.sr
                /\ hop_length_ms * y.sr < (hop_length + 1) * 1000
        /\ frame_length > 0 /\ hop_length > 0
        /\ lib.rms = "frames" =>
              /\ noise_frames_count * 2 * hop_length <= y.sr
              /\ y.sr < (noise_frames_count + 1) * 2 * hop_length

C10_Witness ==
    /\ pc = "done" /\ lib.rms = "frames"
    /\ frame_length_ms * y.sr >= 1000 /\ hop_length_ms * y.sr < 1000
    /\ hop_length = 512

(***************************************************************************)
(* Properties of the request handler (SpecServer).                         *)
(***************************************************************************)
Answered(i) == req[i].pc = "done"

\* C6: the handler answers {"gender": label} with 200 only for a label "Female"
\* or "Male"; a load error or an unclear or inconclusive outcome is answered
\* {"error": message} with 400 or 500; a request without audio_url gets an error
\* body with 400.
C6_GenderKeyOnlyForLabels ==
    \A i \in Requests :
        Answered(i) =>
            /\ req[i].response.key \in {"gender", "error"}
            /\ req[i].response.key = "gender" =>
                  req[i].response.status = 200 /\ req[i].response.value \in Labels
            /\ req[i].response.key = "error" => req[i].response.status \in {400, 500}
            /\ (~req[i].has_url \/ req[i].audio_url = "") =>
                  req[i].response.key = "error" /\ req[i].response.status = 400

\* C7: under every interleaving each request's pipeline loads the audio this
\* request downloaded itself, and no request fails because of another's steps.
C7_RequestsIndependent ==
    \A i \in Requests :
        (Answered(i) /\ req[i].audio_url \in DOMAIN Remote) =>
            /\ req[i].read = Remote[req[i].audio_url]
            /\ req[i].response.status = 200

====
